---- MODULE Spec2Model ----
(***************************************************************************)
(* Model of the background CRS generation scheduler                        *)
(* (app/services/background_crs_generator.py) and of the in-process event  *)
(* bus it publishes to (app/core/events.py).                               *)
(*                                                                         *)
(* The program runs on one asyncio event loop (Python >= 3.9), so every    *)
(* action below is one run of a coroutine between two suspension points:   *)
(* awaits on an unbounded asyncio.Queue.put and on EventBus.publish never  *)
(* suspend; the suspension points are task_queue.get() on an empty queue,  *)
(* "await async_task", asyncio.sleep and each step of the filler's stream. *)
(* asyncio.CancelledError derives from BaseException, so no                *)
(* "except Exception" clause catches it.                                   *)
(***************************************************************************)
EXTENDS Integers, Sequences, FiniteSets, TLC

\* ------------------------------------------------------------------ bounds
MaxSessions == 2
MaxTasks == 2
MaxRetries == 3
MaxChunks == 1
MaxSubscribers == 2
MaxPublish == 3
MaxContent == 2
MaxSnapshots == 2

Sessions == 1..MaxSessions
TaskIds == 1..MaxTasks
RetryChoices == 0..MaxRetries
\* retry budgets of the scheduling runs: no attempt at all, one retry
SchedRetries == {0, 2}
\* what the filler can write: the contents of a CRS template; NoContent is
\* the empty dict "{}" and None
NoContent == 0
Contents == 1..MaxContent
\* the scheduling runs do not tell contents apart
PlainContents == {1}
\* two channels (session ids) for the event bus runs
Channels == {1, 2}
SubscriberIds == 1..MaxSubscribers

\* ------------------------------------------------------- program constants
BackoffBase == 2

VARIABLES
    worker_task,          \* _worker_task and the position of start_worker
    task_queue,           \* BackgroundCRSGenerator.task_queue
    queued_sessions,      \* BackgroundCRSGenerator.queued_sessions
    processing_sessions,  \* BackgroundCRSGenerator.processing_sessions
    session_status,       \* BackgroundCRSGenerator.session_status
    active_tasks,         \* BackgroundCRSGenerator.active_tasks
    units,                \* the asyncio tasks running _process_task
    n_tasks,              \* number of CRSGenerationTask objects created
    crs_documents,        \* rows written by persist_crs_document
    session_crs,          \* SessionModel.crs_document_id, per session
    subscribers,          \* EventBus.subscribers
    queues,               \* the asyncio.Queue of every subscribe() call
    published             \* the EventBus.publish calls made so far, in order

genVars == <<worker_task, task_queue, queued_sessions, processing_sessions,
             session_status, active_tasks, units, n_tasks,
             crs_documents, session_crs>>
busVars == <<subscribers, queues, published>>
vars == <<worker_task, task_queue, queued_sessions, processing_sessions,
          session_status, active_tasks, units, n_tasks,
          crs_documents, session_crs, subscribers, queues, published>>

\* ------------------------------------------------------- CRSGenerationStatus
IDLE == "idle"
QUEUED == "queued"
GENERATING == "generating"
COMPLETE == "complete"
ERROR == "error"
NoEntry == "no_entry"
CRSGenerationStatus == {IDLE, QUEUED, GENERATING, COMPLETE, ERROR}

\* dict.get(session_id, IDLE) on a status mapping st
StatusOf(st, s) == IF st[s] = NoEntry THEN IDLE ELSE st[s]

get_status(s) == StatusOf(session_status, s)

\* ------------------------------------------------------------------ events
Event(type) ==
    [type |-> type, percentage |-> 0, attempt |-> 0, max_attempts |-> 0,
     wait_time |-> 0, retry_count |-> 0, crs_document_id |-> 0,
     is_complete |-> FALSE, content |-> NoContent,
     at_status |-> NoEntry, at_link |-> 0, at_txn |-> FALSE]

EvStarted == Event("crs_generation_started")
EvProgress(pct) == [Event("crs_progress") EXCEPT !.percentage = pct]
EvPartial(partial_json) ==
    [Event("crs_partial") EXCEPT !.content = partial_json]
EvRetry(attempt, max_attempts, wait_time) ==
    [Event("crs_retry") EXCEPT !.attempt = attempt,
                               !.max_attempts = max_attempts,
                               !.wait_time = wait_time]
EvError(retry_count) == [Event("crs_error") EXCEPT !.retry_count = retry_count]
\* a completion event that is always typed crs_complete
EvDoneAlwaysComplete(is_complete, doc, crs_template) ==
    [Event("crs_complete")
        EXCEPT !.percentage = 100, !.is_complete = is_complete,
               !.crs_document_id = doc, !.content = crs_template]

EvDone(is_complete, doc, crs_template) ==
    [Event(IF is_complete THEN "crs_complete" ELSE "crs_updated")
        EXCEPT !.percentage = 100, !.is_complete = is_complete,
               !.crs_document_id = doc, !.content = crs_template]

\* 2 ** attempt
RECURSIVE Pow(_, _)
Pow(b, e) == IF e = 0 THEN 1 ELSE b * Pow(b, e - 1)

\* ------------------------------------------------- the generator's state
\* the return value of an API call; NoReturn while none has been made
NoReturn == [op |-> "none", session_id |-> 0, value |-> FALSE]

\* The generator's fields as one record, so that the synchronous stretches of
\* code can be composed as functions from state to state.
Gen ==
    [worker_task |-> worker_task, task_queue |-> task_queue,
     queued_sessions |-> queued_sessions,
     processing_sessions |-> processing_sessions,
     session_status |-> session_status, active_tasks |-> active_tasks,
     units |-> units, n_tasks |-> n_tasks,
     crs_documents |-> crs_documents, session_crs |-> session_crs,
     ret |-> NoReturn]

\* An asyncio task object lives while it is pending or something refers to it
\* (active_tasks, or the worker frame awaiting it).
Referenced(g) ==
    {u \in DOMAIN g.units :
        \/ g.units[u].pc # "done"
        \/ \E s \in Sessions : g.active_tasks[s] = u
        \/ (g.worker_task.pc = "await" /\ g.worker_task.awaiting = u)}

Collect(g) == [g EXCEPT !.units = [u \in Referenced(g) |-> g.units[u]]]

Becomes(g0) ==
    LET g == Collect(g0) IN
    /\ worker_task' = g.worker_task
    /\ task_queue' = g.task_queue
    /\ queued_sessions' = g.queued_sessions
    /\ processing_sessions' = g.processing_sessions
    /\ session_status' = g.session_status
    /\ active_tasks' = g.active_tasks
    /\ units' = g.units
    /\ n_tasks' = g.n_tasks
    /\ crs_documents' = g.crs_documents
    /\ session_crs' = g.session_crs


\* ------------------------------------------------------------ event bus use
\* "await event_bus.publish(task.session_id, e)" made by execution unit u.
\* The generator is run with no subscriber attached, so the bus drops the
\* event (see publish below); the call is recorded in the unit's own
\* publication history.  The record kept there also notes what the program's
\* state was at the moment of the call: the session's in-memory status
\* (at_status), the document its row was linked to (at_link) and whether the
\* unit's database session had a transaction open (at_txn).
Pub(g, u, e) ==
    LET sid == g.units[u].session_id
    IN [g EXCEPT !.units[u].events =
           Append(@, [e EXCEPT !.at_status = StatusOf(g.session_status, sid),
                               !.at_link = g.session_crs[sid],
                               !.at_txn = g.units[u].txn_open])]

\* The coroutine of unit u ends: "returned", "raised" (an exception escaped
\* _process_task) or "cancelled" (CancelledError went through it; only the
\* finally clause db.close() runs).
Finish(g, u, outcome) ==
    [g EXCEPT !.units[u].pc = "done", !.units[u].outcome = outcome,
              !.units[u].txn_open = FALSE]

\* ---------------------------------------------------------- _process_task
\* an error branch that marks every session as failed
ProcessTaskErrorAll(g, u) ==
    LET g1 == [g EXCEPT !.session_status = [s \in Sessions |-> ERROR],
                        !.units[u].result = "error"]
    IN Finish(Pub(g1, u, EvError(g1.units[u].retry_count)), u, "returned")

\* except Exception branch of _process_task, then finally, then return
ProcessTaskError(g, u) ==
    LET sid == g.units[u].session_id
        g1 == [g EXCEPT !.session_status[sid] = ERROR,
                        !.units[u].result = "error"]
    IN Finish(Pub(g1, u, EvError(g1.units[u].retry_count)), u, "returned")

\* a backoff that grows linearly
WaitTimeLinear(attempt) == BackoffBase * attempt

\* wait_time = 2 ** attempt
WaitTime(attempt) == Pow(BackoffBase, attempt)

\* a retry test that is off by one
MayRetryOffByOne(attempt, max_retries) == attempt < max_retries

\* attempt < task.max_retries - 1
MayRetry(attempt, max_retries) == attempt < max_retries - 1

\* --------------------------------------------------- _generate_crs_with_retry
\* an except branch without the rollback
RollbackSkipped(g, u) == g

\* "try: db.rollback() except Exception: pass": the transaction the attempt
\* had open is ended
Rollback(g, u) == [g EXCEPT !.units[u].txn_open = FALSE]

\* except Exception branch of the retry loop for the attempt now running
AttemptFailed(g, u) ==
    LET t == g.units[u]
        a == t.attempt
        g1 == Rollback([g EXCEPT !.units[u].retry_count = a + 1,
                                 !.units[u].failures = @ + 1], u)
    IN IF MayRetry(a, t.max_retries)
       THEN LET g2 == Pub(g1, u, EvRetry(a + 1, t.max_retries, WaitTime(a)))
            IN [g2 EXCEPT !.units[u].pc = "sleep",
                          !.units[u].sleep_time = WaitTime(a)]
       ELSE ProcessTaskError(g1, u)

\* a CancelledError that the retry loop's "except Exception" catches
CancelledCaught(g, u) ==
    AttemptFailed([g EXCEPT !.units[u].must_cancel = FALSE], u)

\* CancelledError thrown into unit u at its suspension point.  It is not an
\* Exception: neither the retry loop nor _process_task catches it, only
\* "finally: db.close()" runs and the coroutine ends cancelled.
Cancelled(g, u) == Finish(g, u, "cancelled")

\* --------------------------------------------------- _generate_crs_progressive
\* an attempt that does not announce the 20% step
BeginAttemptNoAnalyzing(g, u, a, has_input) ==
    LET g0 == [g EXCEPT !.units[u].attempt = a, !.units[u].chunks = 0,
                        !.units[u].sleep_time = 0,
                        !.units[u].final_result = NoContent]
        g1 == [Pub(Pub(g0, u, EvStarted), u, EvProgress(10))
                  EXCEPT !.units[u].txn_open = TRUE]
    IN IF ~has_input
       THEN Finish([g1 EXCEPT !.units[u].result = "empty"], u, "returned")
       ELSE [Pub(g1, u, EvProgress(30)) EXCEPT !.units[u].pc = "stream"]

\* From the top of _generate_crs_progressive to the first step of the
\* filler's stream.  has_input: the history query finds a client message.
BeginAttempt(g, u, a, has_input) ==
    LET sid == g.units[u].session_id
        g0 == [g EXCEPT !.units[u].attempt = a, !.units[u].chunks = 0,
                        !.units[u].sleep_time = 0,
                        !.units[u].final_result = NoContent]
        g1 == [Pub(Pub(g0, u, EvStarted), u, EvProgress(10))
                  EXCEPT !.units[u].txn_open = TRUE]
    IN IF ~has_input
       THEN Finish([g1 EXCEPT !.units[u].result = "empty"], u, "returned")
       ELSE LET g2 == Pub(Pub(g1, u, EvProgress(20)), u, EvProgress(30))
            IN [g2 EXCEPT !.units[u].pc = "stream"]

\* last_emit_time = 0 and the loop's monotonic clock is past the throttle
\* window, so the first snapshot of an attempt is always emitted.
FirstSnapshot(t) == t.chunks = 0

\* One snapshot partial_json of fill_template_stream; emit: the throttle lets
\* it through.
StreamChunk(g, u, emit, partial_json) ==
    LET g1 == [g EXCEPT !.units[u].chunks = @ + 1,
                        !.units[u].final_result = partial_json]
    IN IF emit THEN Pub(g1, u, EvPartial(partial_json)) ELSE g1

\* a persist step that saves the last streamed snapshot
PersistLastSnapshot(g, u) ==
    LET sid == g.units[u].session_id
        doc == Len(g.crs_documents) + 1
    IN [g EXCEPT !.crs_documents =
                     Append(@, [session_id |-> sid, task |-> u,
                                content |-> g.units[u].final_result]),
                 !.session_crs[sid] = doc,
                 !.units[u].doc = doc,
                 !.units[u].txn_open = FALSE]

\* persist_crs_document(content = result["crs_template"]), "Link to
\* session", db.commit()
Persist(g, u) ==
    LET sid == g.units[u].session_id
        doc == Len(g.crs_documents) + 1
    IN [g EXCEPT !.crs_documents =
                     Append(@, [session_id |-> sid, task |-> u,
                                content |-> g.units[u].crs_template]),
                 !.session_crs[sid] = doc,
                 !.units[u].doc = doc,
                 !.units[u].txn_open = FALSE]

\* a completion that forgets to set the status
CompleteNoStatus(g, u, is_complete) ==
    Pub([g EXCEPT !.units[u].result = "done"], u,
        EvDone(is_complete, g.units[u].doc, g.units[u].crs_template))

\* "Step 8": status COMPLETE, then the completion event
Complete(g, u, is_complete) ==
    LET sid == g.units[u].session_id
        g1 == [g EXCEPT !.session_status[sid] = COMPLETE,
                        !.units[u].result = "done"]
    IN Pub(g1, u, EvDone(is_complete, g1.units[u].doc,
                         g1.units[u].crs_template))

\* From the end of the stream to the return of _generate_crs_progressive.
\* final: what fill_template and persist_crs_document do; crs_template: the
\* template that fill_template returns.
FinalOutcomes == {"fill_raises", "persist_raises", "complete", "incomplete"}

\* a pipeline whose attempt still fails after its completion event
AfterStreamFailsLate(g, u, final, crs_template) ==
    IF final = "fill_raises" THEN AttemptFailed(g, u)
    ELSE LET g0 == [g EXCEPT !.units[u].crs_template = crs_template]
             g1 == Pub(Pub(Pub(g0, u, EvProgress(75)), u, EvProgress(85)),
                       u, EvProgress(90))
         IN AttemptFailed(Complete(Persist(g1, u), u, final = "complete"), u)

AfterStream(g, u, final, crs_template) ==
    IF final = "fill_raises" THEN AttemptFailed(g, u)
    ELSE LET g0 == [g EXCEPT !.units[u].crs_template = crs_template]
             g1 == Pub(Pub(Pub(g0, u, EvProgress(75)), u, EvProgress(85)),
                       u, EvProgress(90))
         IN IF final = "persist_raises" THEN AttemptFailed(g1, u)
            ELSE Finish(Complete(Persist(g1, u), u, final = "complete"),
                        u, "returned")

\* a retry loop that makes one attempt whatever max_retries is
RunRetryAlwaysAttempts(g, u, has_input) == BeginAttempt(g, u, 0, has_input)

\* for attempt in range(task.max_retries): first entry.  With max_retries = 0
\* the loop body never runs and "raise last_error" raises a TypeError, which
\* _process_task handles like any exception.
RunRetry(g, u, has_input) ==
    IF g.units[u].max_retries = 0
    THEN ProcessTaskError(g, u)
    ELSE BeginAttempt(g, u, 0, has_input)


\* ------------------------------------------------------------- start_worker
\* A fresh asyncio task around _process_task(task), not yet run.
NewUnit(task) ==
    [session_id |-> task.session_id, max_retries |-> task.max_retries,
     retry_count |-> 0, pc |-> "start", attempt |-> 0, must_cancel |-> FALSE,
     outcome |-> "pending", result |-> "none", events |-> << >>,
     chunks |-> 0, sleep_time |-> 0, failures |-> 0, doc |-> 0,
     final_result |-> NoContent, crs_template |-> NoContent,
     txn_open |-> FALSE]

\* a worker that would go on to the next task without awaiting the unit
AwaitUnitNoWait(u) == [pc |-> "get", awaiting |-> 0]

\* "Wait for completion": the worker suspends on the unit it has just created
AwaitUnit(u) == [pc |-> "await", awaiting |-> u]

\* marking that leaves the session in queued_sessions
MarkProcessingNoDiscard(g, sid) ==
    [g EXCEPT !.processing_sessions = @ \cup {sid},
              !.session_status[sid] = GENERATING]

\* "Mark session as processing"
MarkProcessing(g, sid) ==
    [g EXCEPT !.queued_sessions = @ \ {sid},
              !.processing_sessions = @ \cup {sid},
              !.session_status[sid] = GENERATING]

\* mark the session, create the asyncio task, await it
Launch(g, task) ==
    LET sid == task.session_id
        u == task.id
    IN [MarkProcessing(g, sid) EXCEPT
                 !.units = [v \in DOMAIN @ \cup {u} |->
                               IF v = u THEN NewUnit(task) ELSE @[v]],
                 !.active_tasks[sid] = u,
                 !.worker_task = AwaitUnit(u)]

\* The top of the while loop: get() returns at once while the queue holds a
\* task, duplicates of a processing session are dropped, and the worker
\* suspends either in get() on the empty queue or on the unit it launched.
RECURSIVE WorkerLoop(_)
WorkerLoop(g) ==
    IF g.task_queue = << >>
    THEN [g EXCEPT !.worker_task = [pc |-> "get", awaiting |-> 0]]
    ELSE LET task == Head(g.task_queue)
             g1 == [g EXCEPT !.task_queue = Tail(@)]
         IN IF task.session_id \in g1.processing_sessions
            THEN WorkerLoop(g1)
            ELSE Launch(g1, task)

\* "Cleanup" after await async_task returned normally
Cleanup(g, u) ==
    LET sid == g.units[u].session_id
    IN [g EXCEPT !.active_tasks[sid] = 0,
                 !.processing_sessions = @ \ {sid}]

\* The worker is resumed by the end of the unit it awaits.
AfterAwait(g, u) ==
    CASE g.units[u].outcome = "returned" -> WorkerLoop(Cleanup(g, u))
      [] g.units[u].outcome = "raised" ->
            \* except Exception: log, await asyncio.sleep(1)
            [g EXCEPT !.worker_task = [pc |-> "sleep", awaiting |-> 0]]
      [] g.units[u].outcome = "cancelled" ->
            \* CancelledError is not an Exception: start_worker ends
            [g EXCEPT !.worker_task = [pc |-> "dead", awaiting |-> 0]]

\* --------------------------------------------------------- queue_generation
\* a guard that looks at processing_sessions only
AdmissibleProcessingOnly(g, s) == ~(s \in g.processing_sessions)

\* "Check if already processing or queued"
Admissible(g, s) ==
    ~(s \in g.processing_sessions \/ s \in g.queued_sessions)

\* a queue that hands out the newest task first
EnqueueFront(q, task) == <<task>> \o q

\* await self.task_queue.put(task) on the unbounded asyncio.Queue
Enqueue(q, task) == Append(q, task)

\* a queue_generation that does not record the session as queued
queue_generationNoMark(g, s, max_retries) ==
    IF ~Admissible(g, s)
    THEN [g EXCEPT !.ret = [op |-> "queue_generation", session_id |-> s,
                            value |-> FALSE]]
    ELSE LET task == [id |-> g.n_tasks + 1, session_id |-> s,
                      max_retries |-> max_retries]
         IN [g EXCEPT !.n_tasks = @ + 1,
                      !.task_queue = Enqueue(@, task),
                      !.session_status[s] = QUEUED,
                      !.ret = [op |-> "queue_generation", session_id |-> s,
                               value |-> TRUE]]

queue_generation(g, s, max_retries) ==
    IF ~Admissible(g, s)
    THEN [g EXCEPT !.ret = [op |-> "queue_generation", session_id |-> s,
                            value |-> FALSE]]
    ELSE LET task == [id |-> g.n_tasks + 1, session_id |-> s,
                      max_retries |-> max_retries]
         IN [g EXCEPT !.n_tasks = @ + 1,
                      !.task_queue = Enqueue(@, task),
                      !.queued_sessions = @ \cup {s},
                      !.session_status[s] = QUEUED,
                      !.ret = [op |-> "queue_generation", session_id |-> s,
                               value |-> TRUE]]

\* -------------------------------------------------------- cancel_generation
\* asyncio.Task.cancel(): no effect on a task that is done, otherwise
\* CancelledError is thrown into the coroutine at its next step.
TaskCancel(t) == IF t.pc = "done" THEN t ELSE [t EXCEPT !.must_cancel = TRUE]

\* a cancel_generation that leaves the session in processing_sessions
cancel_generationKeepsProcessing(g, s) ==
    IF g.active_tasks[s] # 0
    THEN LET u == g.active_tasks[s]
         IN [g EXCEPT !.units[u] = TaskCancel(@),
                      !.active_tasks[s] = 0,
                      !.session_status[s] = IDLE,
                      !.ret = [op |-> "cancel_generation", session_id |-> s,
                               value |-> TRUE]]
    ELSE [g EXCEPT !.ret = [op |-> "cancel_generation", session_id |-> s,
                            value |-> FALSE]]

cancel_generation(g, s) ==
    IF g.active_tasks[s] # 0
    THEN LET u == g.active_tasks[s]
         IN [g EXCEPT !.units[u] = TaskCancel(@),
                      !.active_tasks[s] = 0,
                      !.processing_sessions = @ \ {s},
                      !.session_status[s] = IDLE,
                      !.ret = [op |-> "cancel_generation", session_id |-> s,
                               value |-> TRUE]]
    ELSE [g EXCEPT !.ret = [op |-> "cancel_generation", session_id |-> s,
                            value |-> FALSE]]

\* ================================================================= actions
\* start_crs_worker(): creates the worker task if there is none or it is done
StartWorker ==
    /\ worker_task.pc \in {"none", "dead"}
    /\ Becomes([Gen EXCEPT !.worker_task = [pc |-> "get", awaiting |-> 0]])
    /\ UNCHANGED busVars

\* the worker, suspended in task_queue.get(), is resumed with a task
WorkerGet ==
    /\ worker_task.pc = "get"
    /\ task_queue # << >>
    /\ Becomes(WorkerLoop(Gen))
    /\ UNCHANGED busVars

\* the worker, suspended on "await async_task", is resumed
WorkerResume ==
    /\ worker_task.pc = "await"
    /\ worker_task.awaiting \in DOMAIN units
    /\ units[worker_task.awaiting].pc = "done"
    /\ Becomes(AfterAwait(Gen, worker_task.awaiting))
    /\ UNCHANGED busVars

\* the worker's asyncio.sleep(1) after a logged exception is over
WorkerWake ==
    /\ worker_task.pc = "sleep"
    /\ Becomes(WorkerLoop(Gen))
    /\ UNCHANGED busVars

\* a caller (the chat handler) awaits queue_generation(s, ..., max_retries)
QueueGeneration(s, m) ==
    /\ Admissible(Gen, s) => n_tasks < MaxTasks
    /\ Becomes(queue_generation(Gen, s, m))
    /\ UNCHANGED busVars

\* a caller awaits cancel_generation(s)
CancelGeneration(s) ==
    /\ Becomes(cancel_generation(Gen, s))
    /\ UNCHANGED busVars

\* first step of the asyncio task of unit u: _process_task up to its first
\* suspension.  open_fails: SessionLocal() raises, outside the try block.
UnitStart(u) ==
    /\ u \in DOMAIN units
    /\ units[u].pc = "start"
    /\ IF units[u].must_cancel
       THEN Becomes(Cancelled(Gen, u))
       ELSE \E open_fails \in BOOLEAN, has_input \in BOOLEAN :
               Becomes(IF open_fails THEN Finish(Gen, u, "raised")
                       ELSE RunRetry(Gen, u, has_input))
    /\ UNCHANGED busVars

\* unit u is resumed inside "async for ... fill_template_stream"; the filler
\* writes templates of the set C and streams at most n snapshots
UnitStreamOver(u, C, n) ==
    /\ u \in DOMAIN units
    /\ units[u].pc = "stream"
    /\ IF units[u].must_cancel
       THEN Becomes(Cancelled(Gen, u))
       ELSE \/ /\ units[u].chunks < n
               /\ \E emit \in BOOLEAN, partial_json \in C :
                     /\ FirstSnapshot(units[u]) => emit
                     /\ Becomes(StreamChunk(Gen, u, emit, partial_json))
            \/ Becomes(AttemptFailed(Gen, u))
            \/ \E final \in FinalOutcomes, crs_template \in C :
                  Becomes(AfterStream(Gen, u, final, crs_template))
    /\ UNCHANGED busVars

UnitStream(u) == UnitStreamOver(u, PlainContents, MaxChunks)

\* the same step when the filler's templates are told apart
UnitStreamContent(u) == UnitStreamOver(u, Contents, MaxSnapshots)

\* unit u is resumed from the backoff sleep and starts the next attempt
UnitWake(u) ==
    /\ u \in DOMAIN units
    /\ units[u].pc = "sleep"
    /\ IF units[u].must_cancel
       THEN Becomes(Cancelled(Gen, u))
       ELSE \E has_input \in BOOLEAN :
               Becomes(BeginAttempt(Gen, u, units[u].attempt + 1, has_input))
    /\ UNCHANGED busVars

\* ------------------------------------------------------------------- Init
GenInit ==
    /\ worker_task = [pc |-> "none", awaiting |-> 0]
    /\ task_queue = << >>
    /\ queued_sessions = {}
    /\ processing_sessions = {}
    /\ session_status = [s \in Sessions |-> NoEntry]
    /\ active_tasks = [s \in Sessions |-> 0]
    /\ units = [u \in {} |-> 0]
    /\ n_tasks = 0
    /\ crs_documents = << >>
    /\ session_crs = [s \in Sessions |-> 0]

BusInit ==
    /\ subscribers = [c \in {} |-> {}]
    /\ queues = [q \in {} |-> 0]
    /\ published = << >>

Init == GenInit /\ BusInit

Next ==
    \/ StartWorker
    \/ WorkerGet
    \/ WorkerResume
    \/ WorkerWake
    \/ \E s \in Sessions, m \in SchedRetries : QueueGeneration(s, m)
    \/ \E s \in Sessions : CancelGeneration(s)
    \/ \E u \in TaskIds : UnitStart(u)
    \/ \E u \in TaskIds : UnitStream(u)
    \/ \E u \in TaskIds : UnitWake(u)

Spec == Init /\ [][Next]_vars

\* The application starts the worker once; the event loop then runs every
\* coroutine that is ready: the worker whenever it can be resumed, an
\* execution unit whenever it can be resumed (the filler, the database and
\* the sleeps all return).  Calls of the API are not forced.
StartupWorker == worker_task.pc = "none" /\ StartWorker

WorkerStep == WorkerGet \/ WorkerResume \/ WorkerWake

UnitStep == \E u \in TaskIds : UnitStart(u) \/ UnitStream(u) \/ UnitWake(u)

SpecFair ==
    /\ Init /\ [][Next]_vars
    /\ WF_vars(StartupWorker)
    /\ WF_vars(WorkerStep)
    /\ WF_vars(UnitStep)

\* The generator driven by queue_generation calls and the worker only.
NextNoCancel ==
    \/ StartWorker
    \/ WorkerGet
    \/ WorkerResume
    \/ WorkerWake
    \/ \E s \in Sessions, m \in SchedRetries : QueueGeneration(s, m)
    \/ \E u \in TaskIds : UnitStart(u)
    \/ \E u \in TaskIds : UnitStream(u)
    \/ \E u \in TaskIds : UnitWake(u)

SpecNoCancel == Init /\ [][NextNoCancel]_vars

\* the first queue_generation call made on the generator
FirstQueueGeneration(s, m) == n_tasks = 0 /\ QueueGeneration(s, m)

\* One task of one session, with the contents of the filler's templates told
\* apart.
NextContent ==
    \/ StartWorker
    \/ WorkerGet
    \/ WorkerResume
    \/ WorkerWake
    \/ \E m \in SchedRetries : FirstQueueGeneration(1, m)
    \/ \E u \in TaskIds : UnitStart(u)
    \/ \E u \in TaskIds : UnitStreamContent(u)
    \/ \E u \in TaskIds : UnitWake(u)

SpecContent == Init /\ [][NextContent]_vars

\* The tasks of one session, with every retry budget up to MaxRetries.
NextRetry ==
    \/ StartWorker
    \/ WorkerGet
    \/ WorkerResume
    \/ WorkerWake
    \/ \E m \in RetryChoices : QueueGeneration(1, m)
    \/ CancelGeneration(1)
    \/ UnitStart(1)
    \/ UnitStream(1)
    \/ UnitWake(1)

SpecRetry == Init /\ [][NextRetry]_vars

\* ================================================================ EventBus
\* The bus as a pair: the subscribers mapping and the subscribers' queues.
Bus == [subscribers |-> subscribers, queues |-> queues]

\* a put that jumps the queue
QueuePutFront(items, data) == <<data>> \o items

\* asyncio.Queue.put on an unbounded queue
QueuePut(items, data) == Append(items, data)

\* the numbers of the publish calls made so far on channel c, in order
PublishedOn(c) ==
    SelectSeq([e \in 1..Len(published) |-> e], LAMBDA e : published[e] = c)

\* a fresh queue that replays the channel's earlier events
NewQueueReplay(c) == PublishedOn(c)

\* queue = asyncio.Queue()
NewQueue(c) == << >>

\* subscribe(), up to its first "await queue.get()": queue = asyncio.Queue();
\* self.subscribers[channel_id].add(queue)   (defaultdict(set))
subscribe(b, q, c) ==
    [subscribers |->
        [k \in DOMAIN b.subscribers \cup {c} |->
            IF k = c
            THEN (IF c \in DOMAIN b.subscribers THEN b.subscribers[c] ELSE {})
                 \cup {q}
            ELSE b.subscribers[k]],
     queues |->
        [k \in DOMAIN b.queues \cup {q} |->
            IF k = q
            THEN [channel |-> c, items |-> NewQueue(c),
                  received |-> << >>, since |-> Len(published)]
            ELSE b.queues[k]]]

\* a cleanup that keeps the channel's key when its set becomes empty
unsubscribeKeepsKey(b, q) ==
    LET c == b.queues[q].channel
    IN [subscribers |-> [b.subscribers EXCEPT ![c] = @ \ {q}],
        queues |-> [k \in DOMAIN b.queues \ {q} |-> b.queues[k]]]

\* the finally clause of subscribe(): remove the queue, reclaim an empty
\* entry; the generator and its queue are gone afterwards
unsubscribe(b, q) ==
    LET c == b.queues[q].channel
        rest == b.subscribers[c] \ {q}
    IN [subscribers |->
           [k \in (IF rest = {} THEN DOMAIN b.subscribers \ {c}
                                ELSE DOMAIN b.subscribers) |->
               IF k = c THEN rest ELSE b.subscribers[k]],
        queues |-> [k \in DOMAIN b.queues \ {q} |-> b.queues[k]]]

\* the queues publish(channel_id, data) puts data on
Targets(b, c) == IF c \in DOMAIN b.subscribers THEN b.subscribers[c] ELSE {}

\* publish(channel_id, data)
publish(b, c, data) ==
    [b EXCEPT !.queues =
        [q \in DOMAIN @ |->
            IF q \in Targets(b, c)
            THEN [@[q] EXCEPT !.items = QueuePut(@, data)]
            ELSE @[q]]]

\* "event = await queue.get(); yield event"
consume(b, q) ==
    [b EXCEPT !.queues[q].received = Append(@, Head(b.queues[q].items)),
              !.queues[q].items = Tail(@)]

BusBecomes(b) ==
    /\ subscribers' = b.subscribers
    /\ queues' = b.queues

\* a consumer starts iterating event_bus.subscribe(c)
Subscribe(q, c) ==
    /\ q \notin DOMAIN queues
    /\ BusBecomes(subscribe(Bus, q, c))
    /\ UNCHANGED <<published, genVars>>

\* a consumer stops iterating (disconnect, cancellation)
Unsubscribe(q) ==
    /\ q \in DOMAIN queues
    /\ BusBecomes(unsubscribe(Bus, q))
    /\ UNCHANGED <<published, genVars>>

\* some coroutine awaits event_bus.publish(c, data); data is the serial
\* number of the call
Publish(c) ==
    /\ Len(published) < MaxPublish
    /\ BusBecomes(publish(Bus, c, Len(published) + 1))
    /\ published' = Append(published, c)
    /\ UNCHANGED genVars

\* a subscriber's generator is resumed with the next event of its queue
Consume(q) ==
    /\ q \in DOMAIN queues
    /\ queues[q].items # << >>
    /\ BusBecomes(consume(Bus, q))
    /\ UNCHANGED <<published, genVars>>

NextBus ==
    \/ \E q \in SubscriberIds, c \in Channels : Subscribe(q, c)
    \/ \E q \in SubscriberIds : Unsubscribe(q)
    \/ \E c \in Channels : Publish(c)
    \/ \E q \in SubscriberIds : Consume(q)

SpecBus == Init /\ [][NextBus]_vars


\* ================================================================== claims
\* positions of session s's tasks in the queue
QueuedTasks(s) ==
    {i \in 1..Len(task_queue) : task_queue[i].session_id = s}

\* execution units of session s that have not ended
InFlight(s) ==
    {u \in DOMAIN units : units[u].session_id = s /\ units[u].pc # "done"}

\* s has a task queued or executing
Busy(s) == QueuedTasks(s) # {} \/ InFlight(s) # {}

\* what queue_generation(s, ..., m) returns when called in the current state
QueueReturns(s, m) == queue_generation(Gen, s, m).ret.value

\* C1: with queue_generation calls and worker steps only, while a session has
\* a task queued or executing every queue_generation call for it returns
\* False, so only the first call was accepted (one task of the session is
\* alive at most); a call returns True only when the session is in neither
\* queued_sessions nor processing_sessions.
C1_AtMostOnePerSession ==
    \A s \in Sessions :
        /\ Cardinality(QueuedTasks(s)) + Cardinality(InFlight(s)) <= 1
        /\ \A m \in SchedRetries :
              /\ Busy(s) => ~QueueReturns(s, m)
              /\ QueueReturns(s, m) =>
                    s \notin queued_sessions \cup processing_sessions

\* a session has a unit in the stream while a second call is rejected, and
\* another session has been accepted behind it
C1_Witness ==
    \E s \in Sessions, t \in Sessions :
        /\ s # t
        /\ \E u \in InFlight(s) : units[u].pc = "stream"
        /\ ~QueueReturns(s, 1)
        /\ QueuedTasks(t) # {}
        /\ ~QueueReturns(t, 1)

\* C2: under every interleaving of queue_generation, cancel_generation,
\* worker steps and task steps, a session never has two execution units in
\* flight at the same time.
C2_OneUnitPerSession ==
    \A s \in Sessions : Cardinality(InFlight(s)) <= 1

\* cancel_generation(s) has been followed by an accepted queue_generation(s)
\* while the cancelled unit has not ended yet
C2_Witness ==
    \E s \in Sessions :
        /\ \E u \in InFlight(s) : units[u].must_cancel
        /\ QueuedTasks(s) # {}

\* the step is an accepted cancel_generation(s)
CancelStep(s) == active_tasks[s] # 0 /\ active_tasks'[s] = 0
                 /\ s \notin processing_sessions'
                 /\ session_status'[s] = IDLE

\* C3: get_status changes only along idle -> queued -> generating ->
\* {complete, error}; back to idle only from generating by cancel_generation;
\* out of complete or error only to queued.
C3_StatusMachine ==
    [][\A s \in Sessions :
         LET a == StatusOf(session_status, s)
             b == StatusOf(session_status', s)
         IN a # b =>
              \/ a = IDLE /\ b = QUEUED
              \/ a = QUEUED /\ b = GENERATING
              \/ a = GENERATING /\ b \in {COMPLETE, ERROR}
              \/ a = GENERATING /\ b = IDLE /\ CancelStep(s)
              \/ a \in {COMPLETE, ERROR} /\ b = QUEUED]_vars

\* C4: queued_sessions and processing_sessions are disjoint in every state.
C4_Disjoint == queued_sessions \cap processing_sessions = {}

\* one session is queued while another is processing
C4_Witness ==
    \E s \in queued_sessions, t \in processing_sessions :
        /\ QueuedTasks(s) # {}
        /\ InFlight(t) # {}

\* C5: session_status is queued exactly for the sessions of queued_sessions,
\* generating exactly for those of processing_sessions, and idle, absent,
\* complete or error exactly for the sessions in neither set.
C5_StatusMatchesSets ==
    \A s \in Sessions :
        /\ session_status[s] = QUEUED <=> s \in queued_sessions
        /\ session_status[s] = GENERATING <=> s \in processing_sessions
        /\ session_status[s] \in {NoEntry, IDLE, COMPLETE, ERROR} <=>
              s \notin queued_sessions \cup processing_sessions


\* -------------------------------------------------------------- retry claims
CompletionTypes == {"crs_complete", "crs_updated"}

\* number of events of ev whose type is in T
CountType(ev, T) == Cardinality({i \in 1..Len(ev) : ev[i].type \in T})

\* the retry events of ev, in order
RetryEvents(ev) == SelectSeq(ev, LAMBDA e : e.type = "crs_retry")

\* in this step the run of unit u ends with result r
Finishes(u, r) ==
    /\ u \in DOMAIN units /\ units[u].pc # "done"
    /\ u \in DOMAIN units' /\ units'[u].pc = "done"
    /\ units'[u].result = r

\* C6: a task with max_retries = M whose attempt fails N < M times and then
\* runs to completion has made exactly N+1 attempts and published exactly N
\* retry events, then one completion event (crs_complete or crs_updated) as
\* its last event, and no error event; its status is then complete.
C6_RetrySuccess ==
    [][\A u \in TaskIds :
         Finishes(u, "done") =>
            LET t == units'[u]
                ev == t.events
                N == t.failures
            IN /\ N < t.max_retries
               /\ t.attempt = N
               /\ CountType(ev, {"crs_generation_started"}) = N + 1
               /\ CountType(ev, {"crs_retry"}) = N
               /\ CountType(ev, CompletionTypes) = 1
               /\ ev[Len(ev)].type \in CompletionTypes
               /\ CountType(ev, {"crs_error"}) = 0
               /\ StatusOf(session_status', t.session_id) = COMPLETE]_vars

\* a task with max_retries 3 has succeeded at its third attempt
C6_Witness ==
    \E u \in DOMAIN units :
        /\ units[u].result = "done"
        /\ units[u].max_retries = 3
        /\ units[u].failures = 2
        /\ get_status(units[u].session_id) = COMPLETE

\* C7: a task with max_retries = M >= 1 whose attempts all fail has made
\* exactly M attempts and published exactly M-1 retry events, then exactly
\* one error event as its last event, in the same uninterrupted stretch as
\* the M-th failure (no retry event, no sleep after it); its status is then
\* error.
C7_RetryExhaustion ==
    [][\A u \in TaskIds :
         (Finishes(u, "error") /\ units'[u].max_retries >= 1) =>
            LET t == units'[u]
                ev == t.events
                M == t.max_retries
            IN /\ t.failures = M
               /\ units[u].failures = M - 1
               /\ units[u].pc # "sleep"
               /\ CountType(ev, {"crs_generation_started"}) = M
               /\ CountType(ev, {"crs_retry"}) = M - 1
               /\ CountType(ev, {"crs_error"}) = 1
               /\ ev[Len(ev)].type = "crs_error"
               /\ ev[Len(ev) - 1].type # "crs_retry"
               /\ CountType(ev, CompletionTypes) = 0
               /\ StatusOf(session_status', t.session_id) = ERROR]_vars

\* a task with max_retries 3 has failed three times and reported the error
C7_Witness ==
    \E u \in DOMAIN units :
        /\ units[u].result = "error"
        /\ units[u].max_retries = 3
        /\ units[u].failures = 3
        /\ get_status(units[u].session_id) = ERROR

\* 2^0, 2^1, 2^2, ...
BackoffTable == <<1, 2, 4, 8, 16, 32>>

\* C8: the k-th retry event of a task carries attempt = k (strictly
\* increasing) and wait_time = 2^(k-1), the power of two of the 0-based index
\* of the attempt that just failed, and while the task is in its backoff
\* sleep it sleeps exactly the wait_time of the retry event it published last.
C8_BackoffGrowth ==
    \A u \in DOMAIN units :
        LET t == units[u]
            r == RetryEvents(t.events)
        IN /\ \A k \in 1..Len(r) :
                 /\ r[k].attempt = k
                 /\ r[k].wait_time = BackoffTable[k]
                 /\ r[k].max_attempts = t.max_retries
           /\ t.pc = "sleep" =>
                 /\ Len(r) = t.attempt + 1
                 /\ t.events[Len(t.events)].type = "crs_retry"
                 /\ t.sleep_time = r[Len(r)].wait_time
                 /\ t.sleep_time = BackoffTable[t.attempt + 1]

\* a task sleeps 2 after its second failure, having slept 1 after the first
C8_Witness ==
    \E u \in DOMAIN units :
        /\ units[u].pc = "sleep"
        /\ units[u].sleep_time = 2
        /\ Len(RetryEvents(units[u].events)) = 2
        /\ RetryEvents(units[u].events)[1].wait_time = 1

\* -------------------------------------------------------------- bus claims
\* what subscriber q has been handed so far: consumed, then still queued
Delivered(q) == queues[q].received \o queues[q].items

InSeq(e, seq) == \E i \in 1..Len(seq) : seq[i] = e

\* the events published on q's channel since q attached, in publish order
Expected(q) ==
    SelectSeq([e \in 1..Len(published) |-> e],
              LAMBDA e : published[e] = queues[q].channel
                         /\ e > queues[q].since)

\* C9: an event published on a channel while a subscriber is attached to it
\* is handed to that subscriber (put on its queue, from which it consumes); a
\* subscriber that attaches after the publish never gets the event, so an
\* event published to a channel without subscribers is never delivered.
C9_NoReplay ==
    \A q \in DOMAIN queues :
        \A e \in 1..Len(published) :
            /\ (published[e] = queues[q].channel /\ e > queues[q].since)
                  => InSeq(e, Delivered(q))
            /\ e <= queues[q].since => ~InSeq(e, Delivered(q))

\* an event went to nobody, a later one was consumed by the subscriber
\* attached at the time and is not seen by the one attached after it
C9_Witness ==
    \E q1 \in DOMAIN queues, q2 \in DOMAIN queues :
        /\ queues[q1].channel = queues[q2].channel
        /\ \E e0 \in 1..Len(published), e \in 1..Len(published) :
              /\ published[e0] = queues[q1].channel
              /\ published[e] = queues[q1].channel
              /\ e0 <= queues[q1].since
              /\ queues[q1].since < e
              /\ e <= queues[q2].since
              /\ InSeq(e, queues[q1].received)
              /\ ~InSeq(e0, Delivered(q1))
              /\ ~InSeq(e, Delivered(q2))

\* C10: for every subscriber, what it has consumed followed by what waits in
\* its queue is exactly the sequence of events published on its channel since
\* it attached, in publish order: nothing lost, duplicated, reordered or
\* taken from another channel; each subscriber of a channel has its own.
C10_PublishOrder ==
    \A q \in DOMAIN queues : Delivered(q) = Expected(q)

\* two subscribers of one channel, attached at different times, have both
\* consumed events while an event went to the other channel in between
C10_Witness ==
    \E q1 \in DOMAIN queues, q2 \in DOMAIN queues :
        /\ q1 # q2
        /\ queues[q1].channel = queues[q2].channel
        /\ queues[q1].since < queues[q2].since
        /\ Len(queues[q1].received) >= 2
        /\ Len(queues[q2].received) >= 1
        /\ \E e \in 1..Len(published) :
              /\ published[e] # queues[q1].channel
              /\ e > queues[q1].since

\* the generator's fields of record g, without the return value
Fields(g) == [g EXCEPT !.ret = NoReturn]

\* C11: cancel_generation(s) returns True exactly when s has an entry in
\* active_tasks.  On True the execution unit of that entry has been asked to
\* cancel (or had already ended), s is in neither active_tasks nor
\* processing_sessions, its status is idle, and a queue_generation(s) made
\* next returns True.  On False no field of the generator changes, so a task
\* of s waiting in the queue stays there for the worker.
C11_CancelGeneration ==
    \A s \in Sessions :
        LET r == cancel_generation(Gen, s)
            u == active_tasks[s]
        IN /\ r.ret.value = (active_tasks[s] # 0)
           /\ r.ret.value =>
                 /\ r.units[u].must_cancel \/ units[u].pc = "done"
                 /\ r.active_tasks[s] = 0
                 /\ s \notin r.processing_sessions
                 /\ StatusOf(r.session_status, s) = IDLE
                 /\ \A m \in RetryChoices :
                        queue_generation(r, s, m).ret.value
           /\ ~r.ret.value =>
                 /\ Fields(r) = Gen
                 /\ \A i \in QueuedTasks(s) : r.task_queue[i] = task_queue[i]

\* a running unit was cancelled by a call that returned True, and the call
\* for the other session, which is only queued, returns False
C11_Witness ==
    \E s \in Sessions, t \in Sessions :
        /\ \E u \in InFlight(s) : units[u].must_cancel
        /\ active_tasks[s] = 0
        /\ s \notin processing_sessions
        /\ get_status(s) = IDLE
        /\ QueuedTasks(t) # {}
        /\ active_tasks[t] = 0
        /\ ~cancel_generation(Gen, t).ret.value

\* C12: once cancel_generation has asked a running unit to cancel (during
\* streaming extraction or a backoff sleep), the status is idle, and from then
\* on that unit publishes no further event, creates and links no document,
\* and its only remaining step ends it as cancelled without writing the
\* status.
C12_CancelStopsRun ==
    [][\A u \in DOMAIN units :
          /\ (~units[u].must_cancel /\ u \in DOMAIN units'
                /\ units'[u].must_cancel) =>
                StatusOf(session_status', units[u].session_id) = IDLE
          /\ (units[u].must_cancel /\ units[u].pc # "done") =>
                /\ u \in DOMAIN units'
                /\ units'[u].events = units[u].events
                /\ units'[u].doc = 0
                /\ units'[u].result = "none"
                /\ \A i \in 1..Len(crs_documents') :
                       crs_documents'[i].task # u
                /\ units'[u] # units[u] =>
                      /\ units'[u].pc = "done"
                      /\ units'[u].outcome = "cancelled"
                      /\ session_status' = session_status
                      /\ crs_documents' = crs_documents
                      /\ session_crs' = session_crs]_vars

\* a unit cancelled during streaming extraction has ended; nothing was
\* persisted and the status is idle
C12_Witness ==
    \E u \in DOMAIN units :
        /\ units[u].outcome = "cancelled"
        /\ Len(units[u].events) >= 4
        /\ units[u].events[Len(units[u].events)].type
               \in {"crs_progress", "crs_partial"}
        /\ get_status(units[u].session_id) = IDLE
        /\ crs_documents = << >>

\* type and percentage of each event of ev, in order
Shape(ev) == [i \in 1..Len(ev) |-> <<ev[i].type, ev[i].percentage>>]

\* C13: a run over a non-empty conversation whose first attempt succeeds with
\* a complete document has published, in this order: one
\* crs_generation_started, progress 10, 20, 30, any number of crs_partial,
\* progress 75, 85, 90, and one crs_complete with percentage 100; there is no
\* retry or error event, and the status is complete when the run ends.
C13_FirstAttemptSuccess ==
    [][\A u \in TaskIds :
         (/\ Finishes(u, "done")
          /\ units'[u].failures = 0
          /\ units'[u].events[Len(units'[u].events)].is_complete) =>
            LET ev == units'[u].events
                n == Len(ev)
            IN /\ n >= 8
               /\ Shape(SubSeq(ev, 1, 4)) =
                     << <<"crs_generation_started", 0>>, <<"crs_progress", 10>>,
                        <<"crs_progress", 20>>, <<"crs_progress", 30>> >>
               /\ \A i \in 5..(n - 4) : ev[i].type = "crs_partial"
               /\ Shape(SubSeq(ev, n - 3, n)) =
                     << <<"crs_progress", 75>>, <<"crs_progress", 85>>,
                        <<"crs_progress", 90>>, <<"crs_complete", 100>> >>
               /\ CountType(ev, {"crs_retry", "crs_error"}) = 0
               /\ StatusOf(session_status', units'[u].session_id) = COMPLETE
      ]_vars

\* a first-attempt run with a partial snapshot has ended with crs_complete
C13_Witness ==
    \E u \in DOMAIN units :
        /\ units[u].pc = "done" /\ units[u].result = "done"
        /\ units[u].failures = 0
        /\ CountType(units[u].events, {"crs_partial"}) >= 1
        /\ units[u].events[Len(units[u].events)].type = "crs_complete"

\* in this step the worker is resumed from its wait for unit u
ResumesFrom(u) ==
    /\ worker_task.pc = "await" /\ worker_task.awaiting = u
    /\ worker_task' # worker_task

\* C14: a run that finds no client message has published
\* crs_generation_started and the 10% progress event and nothing else, has
\* persisted and linked nothing and has made one attempt; when the worker has
\* taken the ended run back, get_status returns idle.
C14_EmptyInput ==
    [][\A u \in DOMAIN units :
         (/\ units[u].result = "empty" /\ units[u].failures = 0
          /\ ResumesFrom(u)) =>
            /\ Shape(units[u].events) =
                  << <<"crs_generation_started", 0>>, <<"crs_progress", 10>> >>
            /\ units[u].doc = 0
            /\ units[u].attempt = 0
            /\ StatusOf(session_status', units[u].session_id) = IDLE]_vars

\* the worker loop is running: waiting for a task, for a unit, or in its
\* one-second pause after a logged exception
WorkerRunning(w) == w.pc \in {"get", "await", "sleep"}

\* C15: a worker loop that has been started never terminates: whatever way
\* the unit it waits for ends (success, exhausted retries, empty input, an
\* exception out of _process_task, cancellation by cancel_generation), the
\* loop is still running afterwards.
C15_WorkerNeverTerminates ==
    [][WorkerRunning(worker_task) => WorkerRunning(worker_task')]_vars

\* the session a unit of this step belongs to
SessionOfUnit(u) ==
    IF u \in DOMAIN units THEN units[u].session_id ELSE units'[u].session_id

\* this step leaves everything the generator holds about session b as it
\* was: its set memberships, status, active task, link, queued tasks, units
\* and documents
SameEntries(b) ==
    /\ (b \in queued_sessions') = (b \in queued_sessions)
    /\ (b \in processing_sessions') = (b \in processing_sessions)
    /\ session_status'[b] = session_status[b]
    /\ active_tasks'[b] = active_tasks[b]
    /\ session_crs'[b] = session_crs[b]
    /\ \/ task_queue' = task_queue
       \/ SelectSeq(task_queue', LAMBDA t : t.session_id = b) =
             SelectSeq(task_queue, LAMBDA t : t.session_id = b)
    /\ \/ units' = units
       \/ \A u \in DOMAIN units \cup DOMAIN units' :
             SessionOfUnit(u) = b =>
                /\ u \in DOMAIN units /\ u \in DOMAIN units'
                /\ units'[u] = units[u]
    /\ \/ crs_documents' = crs_documents
       \/ SelectSeq(crs_documents', LAMBDA d : d.session_id = b) =
             SelectSeq(crs_documents, LAMBDA d : d.session_id = b)

\* this step is a step of session a's execution unit, or a call of
\* queue_generation(a) that is accepted, or a call of cancel_generation(a)
\* that returns True
ActsOn(a) ==
    /\ worker_task' = worker_task
    /\ \/ \E u \in DOMAIN units :
             /\ units[u].session_id = a
             /\ u \notin DOMAIN units' \/ units'[u] # units[u]
       \/ /\ n_tasks' = n_tasks + 1
          /\ task_queue'[Len(task_queue')].session_id = a
       \/ active_tasks[a] # 0 /\ active_tasks'[a] = 0

\* C16: a step of session A's execution unit (a failed attempt, a retry, the
\* final error, its cancellation) and an accepted queue_generation or
\* cancel_generation call for A leave every entry of any other session B as
\* it was: B's membership in queued_sessions and processing_sessions, its
\* status, its active task and its unit, its task in the queue, its documents
\* and link.  No step other than the worker's changes an entry of a session
\* it does not act on.
C16_SessionIsolation ==
    [][/\ \A a \in Sessions :
             ActsOn(a) => \A b \in Sessions \ {a} : SameEntries(b)
       /\ worker_task' = worker_task =>
             \A b \in Sessions : ActsOn(b) \/ SameEntries(b)]_vars

\* session A's run has failed for good while session B's task waits in the
\* queue with status queued
C16_Witness ==
    \E a \in Sessions : \E b \in Sessions \ {a} :
        /\ \E u \in DOMAIN units :
              /\ units[u].session_id = a
              /\ units[u].result = "error"
              /\ units[u].failures >= 1
        /\ get_status(a) = ERROR
        /\ QueuedTasks(b) # {}
        /\ b \in queued_sessions
        /\ get_status(b) = QUEUED

\* C17: when the worker is started and every ready coroutine is eventually
\* run, every accepted task is eventually taken from the queue, and the
\* status of its session eventually leaves queued and generating.
C17_EventuallyProcessed ==
    \A s \in Sessions :
        /\ (s \in queued_sessions) ~> (s \notin queued_sessions)
        /\ (get_status(s) \in {QUEUED, GENERATING})
              ~> (get_status(s) \notin {QUEUED, GENERATING})

\* C18: when the worker is resumed from a unit that has ended by itself
\* (success, exhausted retries, empty input, or an exception out of
\* _process_task), the unit's session is released: active_tasks no longer
\* holds that unit, and the session is in processing_sessions only if a newer
\* task of it has been started in the meantime.
C18_CleanupAfterUnit ==
    [][\A u \in DOMAIN units :
         (ResumesFrom(u) /\ units[u].outcome \in {"returned", "raised"}) =>
            LET sid == units[u].session_id
            IN /\ active_tasks'[sid] # u
               /\ sid \in processing_sessions' =>
                     active_tasks'[sid] \notin {0, u}]_vars

\* C19: tasks begin execution in the order in which their queue_generation
\* calls were accepted.  Task ids count the accepted calls, so: the queue
\* holds the waiting tasks in increasing id order, and every task still
\* waiting was accepted after every task that has been started.
C19_Fifo ==
    /\ \A i \in 1..Len(task_queue), j \in 1..Len(task_queue) :
          i < j => task_queue[i].id < task_queue[j].id
    /\ \A i \in 1..Len(task_queue), u \in DOMAIN units :
          u < task_queue[i].id

\* the task accepted first has been started while the task accepted second,
\* of the other session, waits in the queue
C19_Witness ==
    /\ 1 \in DOMAIN units
    /\ units[1].pc # "done"
    /\ get_status(units[1].session_id) = GENERATING
    /\ Len(task_queue) = 1
    /\ task_queue[1].id = 2
    /\ task_queue[1].session_id # units[1].session_id

C21_FinalContent ==
    [][\A u \in TaskIds :
         Finishes(u, "done") =>
            LET t == units'[u]
                ev == t.events
            IN /\ crs_documents'[t.doc].content = t.crs_template
               /\ ev[Len(ev)].content = t.crs_template
               /\ t.crs_template \in Contents]_vars

\* a run has streamed two snapshots, of which the throttle dropped the
\* last, and has persisted a template that differs from that last snapshot
C21_Witness ==
    \E u \in DOMAIN units :
        /\ units[u].pc = "done" /\ units[u].result = "done"
        /\ units[u].failures = 0
        /\ units[u].chunks = 2
        /\ CountType(units[u].events, {"crs_partial"}) = 1
        /\ units[u].final_result # NoContent
        /\ units[u].final_result # units[u].crs_template
        /\ crs_documents[units[u].doc].content = units[u].crs_template

\* C22: the link step records a session's document id only when none is
\* recorded yet: once a session is linked to a document, a later successful
\* run on that session leaves the link on the first document.
C22_LinkOnce ==
    [][\A s \in Sessions :
         session_crs[s] # 0 => session_crs'[s] = session_crs[s]]_vars

\* the subscribers that are iterating subscribe(c)
Live(c) == {q \in DOMAIN queues : queues[q].channel = c}

\* C23: after any sequence of subscribe, unsubscribe and publish operations
\* the subscriber map has a key for a channel exactly when the channel has a
\* live subscriber, and the key's set is the set of those subscribers.
\* Unsubscribing the last subscriber of a channel removes its key; publish
\* never changes the map, and publish to a channel without subscribers
\* changes nothing at all.
C23_ChannelKeys ==
    /\ \A c \in Channels :
          /\ c \in DOMAIN subscribers <=> Live(c) # {}
          /\ c \in DOMAIN subscribers => subscribers[c] = Live(c)
          /\ publish(Bus, c, 0).subscribers = subscribers
          /\ c \notin DOMAIN subscribers => publish(Bus, c, 0) = Bus
    /\ \A q \in DOMAIN queues :
          LET c == queues[q].channel
              b == unsubscribe(Bus, q)
          IN (c \in DOMAIN b.subscribers) <=> (Live(c) # {q})

\* channel 1 has a live subscriber, channel 2 has no key, and since that
\* subscriber arrived something was published on channel 2
C23_Witness ==
    /\ DOMAIN subscribers = {1}
    /\ \E q \in DOMAIN queues :
          /\ queues[q].channel = 1
          /\ \E i \in 1..Len(published) :
                i > queues[q].since /\ published[i] = 2

C25_CancelOnlyUnfinished ==
    \A s \in Sessions :
        cancel_generation(Gen, s).ret.value =>
            LET t == units[active_tasks[s]]
            IN /\ t.doc = 0
               /\ CountType(t.events, CompletionTypes) = 0

\* C26: whenever get_status(s) is idle, complete or error, a
\* queue_generation(s) made in that state returns True: none of these
\* statuses coexists with s in processing_sessions or queued_sessions.
C26_TerminalStatusAdmits ==
    \A s \in Sessions :
        get_status(s) \in {IDLE, COMPLETE, ERROR} =>
            /\ s \notin processing_sessions
            /\ s \notin queued_sessions
            /\ \A m \in RetryChoices : QueueReturns(s, m)

\* C27: queue_generation accepts a task with max_retries = 0 like any other;
\* when its unit runs, the pipeline is never attempted: the run ends with
\* status error, having published exactly one event, a crs_error with
\* retry_count 0, and having persisted nothing.
C27_ZeroRetries ==
    /\ \A s \in Sessions : Admissible(Gen, s) => QueueReturns(s, 0)
    /\ \A u \in DOMAIN units :
          (/\ units[u].max_retries = 0
           /\ units[u].pc = "done"
           /\ units[u].outcome = "returned") =>
              /\ units[u].result = "error"
              /\ Len(units[u].events) = 1
              /\ units[u].events[1].type = "crs_error"
              /\ units[u].events[1].retry_count = 0
              /\ units[u].events[1].at_status = ERROR
              /\ units[u].doc = 0
              /\ units[u].attempt = 0 /\ units[u].failures = 0
              /\ \A i \in 1..Len(crs_documents) : crs_documents[i].task # u

\* the run of a task queued with max_retries = 0 has ended and the status of
\* its session is error
C27_Witness ==
    \E u \in DOMAIN units :
        /\ units[u].max_retries = 0
        /\ units[u].pc = "done" /\ units[u].result = "error"
        /\ get_status(units[u].session_id) = ERROR

\* the execution units that have not ended
Pending == {u \in DOMAIN units : units[u].pc # "done"}

\* C28: generation is serialized across the process: processing_sessions
\* holds at most one session and at most one execution unit is in flight.
C28_Serialized ==
    /\ Cardinality(processing_sessions) <= 1
    /\ Cardinality(Pending) <= 1

\* the part of C28 about execution units alone
OneUnitInFlight == Cardinality(Pending) <= 1

TerminalTypes == CompletionTypes \cup {"crs_error"}

\* C29: over all its attempts a task publishes at most one terminal event
\* (crs_complete, crs_updated or crs_error).  The terminal event is the last
\* event of the task, the status was already set to the matching value
\* (complete or error) when it was published, and an error event comes only
\* when as many attempts have failed as the task was allowed.
C29_OneTerminalEvent ==
    \A u \in DOMAIN units :
        LET t == units[u]
            ev == t.events
        IN /\ CountType(ev, TerminalTypes) <= 1
           /\ \A i \in 1..Len(ev) :
                 /\ ev[i].type \in TerminalTypes =>
                       i = Len(ev) /\ t.pc = "done"
                 /\ ev[i].type \in CompletionTypes =>
                       ev[i].at_status = COMPLETE /\ t.result = "done"
                 /\ ev[i].type = "crs_error" =>
                       /\ ev[i].at_status = ERROR
                       /\ t.result = "error"
                       /\ t.failures = t.max_retries
                       /\ CountType(ev, {"crs_generation_started"})
                             = t.max_retries

\* a task allowed two attempts has failed twice: one retry event, then the
\* error event as its last
C29_Witness ==
    \E u \in DOMAIN units :
        LET ev == units[u].events
        IN /\ units[u].max_retries = 2
           /\ Len(ev) >= 2
           /\ ev[Len(ev)].type = "crs_error"
           /\ CountType(ev, {"crs_retry"}) = 1
           /\ CountType(ev, TerminalTypes) = 1

\* no waiting task belongs to a session that is being processed, every
\* waiting task's session is in queued_sessions, and no two waiting tasks
\* belong to the same session
QueueClean(q, processing, queued) ==
    /\ \A i \in 1..Len(q) :
          /\ q[i].session_id \notin processing
          /\ q[i].session_id \in queued
    /\ \A i \in 1..Len(q), j \in 1..Len(q) :
          i # j => q[i].session_id # q[j].session_id

\* C30: with the single worker of start_crs_worker, the task the worker
\* takes never belongs to a session in processing_sessions, so the
\* duplicate-skip branch is never taken: every step that takes a task takes
\* exactly one, starts its execution unit, removes its session from
\* queued_sessions and puts it in processing_sessions; the queue never holds
\* two tasks of one session.
C30_NoDuplicateSkip ==
    [][/\ QueueClean(task_queue, processing_sessions, queued_sessions)
       /\ QueueClean(task_queue', processing_sessions', queued_sessions')
       /\ Len(task_queue') < Len(task_queue) =>
             LET task == Head(task_queue)
             IN /\ task_queue' = Tail(task_queue)
                /\ task.session_id \notin processing_sessions
                /\ task.id \in DOMAIN units'
                /\ units'[task.id].pc = "start"
                /\ task.session_id \notin queued_sessions'
                /\ task.session_id \in processing_sessions']_vars

\* the worker has taken a second task: its unit is started and its session
\* has moved from queued_sessions to processing_sessions
C30_Witness ==
    \E u \in DOMAIN units :
        /\ u >= 2
        /\ units[u].pc = "start"
        /\ worker_task.pc = "await" /\ worker_task.awaiting = u
        /\ units[u].session_id \in processing_sessions
        /\ units[u].session_id \notin queued_sessions
        /\ QueuedTasks(units[u].session_id) = {}

====
